---- MODULE Spec2Model ----
(***************************************************************************)
(* Model of the core of baccarat_toolkit.py: the composition-tracking     *)
(* Shoe, the dealing rules, the hand dealer and the Monte Carlo           *)
(* estimator.  A Shoe is modelled by its `counts` dict, a function from   *)
(* the 13 ranks (in dict insertion order 1..13) to integers.  The value   *)
(* returned by random.randint is a nondeterministic input.                *)
(***************************************************************************)
EXTENDS Integers, Sequences, FiniteSets, TLC

VARIABLES
    shoe,         \* counts of the caller's Shoe object
    pre,          \* counts of the caller's Shoe when the last call started
    ret,          \* what the last call on the core returned or raised
    sim_pc,       \* position inside simulate_next_hand_probabilities
    n_sims,       \* simulate: the n_sims argument
    trial,        \* simulate: number of loop bodies entered so far
    win_counts,   \* simulate: the win_counts dict
    base_counts,  \* simulate: the base_counts snapshot
    temp_shoe,    \* simulate: counts of the temp_shoe of the last trial
    sim_failed,   \* simulate: the except ValueError branch was taken
    prob,         \* simulate: the returned dict
    hist,         \* the call before the last one, when it was a remove or add_back
    rng,          \* state of the process-wide generator of the random module
    runs          \* the last two seeded simulate calls: arguments and result

vars == <<shoe, pre, ret, sim_pc, n_sims, trial, win_counts, base_counts,
          temp_shoe, sim_failed, prob, hist, rng, runs>>

simvars == <<sim_pc, n_sims, trial, win_counts, base_counts, temp_shoe,
             sim_failed, prob>>

aux == <<hist, rng, runs>>

(***************************************************************************)
(* Bounds of the exploration.                                             *)
(***************************************************************************)
\* largest per-rank count of an explored shoe
MaxCount == 2
\* largest number of cards of an explored shoe
MaxCards == 7
\* largest n_sims passed to simulate
MaxSims == 3
\* largest decks argument of an explored Shoe(...)
MaxDecks == 8
\* longest list of cards passed to hand_total
MaxHand == 3
\* the ranks the explored shoes hold cards of (all other ranks are at 0)
ModelRanks == {3, 4, 9, 10}

(***************************************************************************)
(* Rank / value table.                                                    *)
(***************************************************************************)
NumRanks == 13
Ranks == 1..NumRanks
CARD_VALUES == <<1, 2, 3, 4, 5, 6, 7, 8, 9, 0, 0, 0, 0>>
\* Python's None for the player_third argument
None == 0 - 1
DefaultDecks == 8

(***************************************************************************)
(* Shoe                                                                   *)
(***************************************************************************)
RECURSIVE SumCounts(_, _)
SumCounts(counts, k) ==
    IF k = 0 THEN 0 ELSE counts[k] + SumCounts(counts, k - 1)

Remaining(counts) == SumCounts(counts, NumRanks)

FullShoeOneSuit(decks) == [rank \in Ranks |-> decks]

\* Shoe.__post_init__ with an empty counts dict
FullShoe(decks) == [rank \in Ranks |-> 4 * decks]

RemoveNoGuard(counts, rank) ==
    [status |-> "ok", counts |-> [counts EXCEPT ![rank] = @ - 1]]

RemoveGuardStrict(counts, rank) ==
    IF counts[rank] < 0
    THEN [status |-> "ValueError", counts |-> counts]
    ELSE [status |-> "ok", counts |-> [counts EXCEPT ![rank] = @ - 1]]

Remove(counts, rank) ==
    IF counts[rank] <= 0
    THEN [status |-> "ValueError", counts |-> counts]
    ELSE [status |-> "ok", counts |-> [counts EXCEPT ![rank] = @ - 1]]

AddBackTwice(counts, rank) == [counts EXCEPT ![rank] = @ + 2]

AddBack(counts, rank) == [counts EXCEPT ![rank] = @ + 1]

\* the first loop of draw_random: 0 when the loop ends without a return
RECURSIVE DrawWalkStrict(_, _, _, _)
DrawWalkStrict(counts, r, rank, cum) ==
    IF rank > NumRanks THEN 0
    ELSE IF counts[rank] <= 0 THEN DrawWalkStrict(counts, r, rank + 1, cum)
    ELSE IF r < cum + counts[rank] THEN rank
    ELSE DrawWalkStrict(counts, r, rank + 1, cum + counts[rank])

RECURSIVE DrawWalk(_, _, _, _)
DrawWalk(counts, r, rank, cum) ==
    IF rank > NumRanks THEN 0
    ELSE IF counts[rank] <= 0 THEN DrawWalk(counts, r, rank + 1, cum)
    ELSE IF r <= cum + counts[rank] THEN rank
    ELSE DrawWalk(counts, r, rank + 1, cum + counts[rank])

\* the fallback loop of draw_random: 0 when no rank has a positive count
RECURSIVE FirstPositive(_, _)
FirstPositive(counts, rank) ==
    IF rank > NumRanks THEN 0
    ELSE IF counts[rank] > 0 THEN rank
    ELSE FirstPositive(counts, rank + 1)

DrawTakeTwo(counts, rank) ==
    [status |-> "ok", rank |-> rank,
     counts |-> [counts EXCEPT ![rank] = @ - 2]]

DrawTake(counts, rank) ==
    [status |-> "ok", rank |-> rank,
     counts |-> [counts EXCEPT ![rank] = @ - 1]]

DrawRandomKeep(counts, r) ==
    IF Remaining(counts) <= 0
    THEN [status |-> "ValueError", rank |-> 0, counts |-> counts]
    ELSE [status |-> "ok", rank |-> DrawWalk(counts, r, 1, 0),
          counts |-> counts]

\* draw_random, r being the value random.randint(1, total) returned
DrawRandom(counts, r) ==
    IF Remaining(counts) <= 0
    THEN [status |-> "ValueError", rank |-> 0, counts |-> counts]
    ELSE LET k == DrawWalk(counts, r, 1, 0)
             f == FirstPositive(counts, 1)
         IN  IF k # 0 THEN DrawTake(counts, k)
             ELSE IF f # 0 THEN DrawTake(counts, f)
             ELSE [status |-> "RuntimeError", rank |-> 0, counts |-> counts]

\* the values random.randint(1, total) can return (0 stands for "not called")
RandInts(counts) ==
    IF Remaining(counts) <= 0 THEN {0} ELSE 1..Remaining(counts)

(***************************************************************************)
(* Hand evaluator and dealing rules                                       *)
(***************************************************************************)
RECURSIVE SumValues(_)
SumValues(cards) ==
    IF cards = <<>> THEN 0
    ELSE CARD_VALUES[Head(cards)] + SumValues(Tail(cards))

HandTotalNoMod(cards) == SumValues(cards)

HandTotal(cards) == SumValues(cards) % 10

BankerDrawRuleNo8(banker_cards, player_third) ==
    LET b == HandTotal(banker_cards)
    IN  IF player_third = None THEN b <= 5
        ELSE IF b <= 2 THEN TRUE
        ELSE IF b = 3 THEN TRUE
        ELSE IF b = 4 THEN player_third \in {2, 3, 4, 5, 6, 7}
        ELSE IF b = 5 THEN player_third \in {4, 5, 6, 7}
        ELSE IF b = 6 THEN player_third \in {6, 7}
        ELSE FALSE

BankerDrawRule(banker_cards, player_third) ==
    LET b == HandTotal(banker_cards)
    IN  IF player_third = None THEN b <= 5
        ELSE IF b <= 2 THEN TRUE
        ELSE IF b = 3 THEN player_third # 8
        ELSE IF b = 4 THEN player_third \in {2, 3, 4, 5, 6, 7}
        ELSE IF b = 5 THEN player_third \in {4, 5, 6, 7}
        ELSE IF b = 6 THEN player_third \in {6, 7}
        ELSE FALSE

(***************************************************************************)
(* Hand dealer.  A deal in progress is a record: the shoe's counts, the   *)
(* local lists pc and bc, the order of the draws made so far, and the     *)
(* status ("ok" or the exception that left the function).                 *)
(***************************************************************************)
DealStart(counts) ==
    [status |-> "ok", counts |-> counts, pc |-> <<>>, bc |-> <<>>,
     order |-> <<>>, result |-> "none"]

\* an exception leaves deal_hand_from_shoe: the locals are lost, the shoe
\* keeps whatever the earlier draws did to it
DealRaise(s, exc) ==
    [status |-> exc, counts |-> s.counts, pc |-> <<>>, bc |-> <<>>,
     order |-> <<>>, result |-> "none"]

\* the results shoe.draw_random() can have, over the values of randint
DrawRandomResults(counts) ==
    { DrawRandom(counts, r) : r \in RandInts(counts) }

\* the deal after a shoe.draw_random() that ended as d: the exception goes
\* up, or the card goes to `who` ("P" or "B")
DealTake(s, who, d) ==
    IF d.status # "ok" THEN DealRaise(s, d.status)
    ELSE [s EXCEPT !.counts = d.counts,
                   !.pc = IF who = "P" THEN Append(@, d.rank) ELSE @,
                   !.bc = IF who = "B" THEN Append(@, d.rank) ELSE @,
                   !.order = Append(@, who)]

\* one shoe.draw_random() whose card goes to `who`
DealDraw(s, who) ==
    IF s.status # "ok" THEN {s}
    ELSE { DealTake(s, who, d) : d \in DrawRandomResults(s.counts) }

DealDraws(S, who) == UNION { DealDraw(s, who) : s \in S }

\* lines 94-95: pc = [draw, draw]; bc = [draw, draw]
InitialDeal(counts) ==
    DealDraws(DealDraws(DealDraws(DealDraws({DealStart(counts)}, "P"), "P"),
                        "B"), "B")

IsNaturalPlayerOnly(pt, bt) == pt \in {8, 9}

IsNatural(pt, bt) == pt \in {8, 9} \/ bt \in {8, 9}

NaturalOutcomeGE(pt, bt) ==
    IF pt >= bt THEN "Player" ELSE IF bt > pt THEN "Banker" ELSE "Tie"

\* lines 102-107
NaturalOutcome(pt, bt) ==
    IF pt > bt THEN "Player" ELSE IF bt > pt THEN "Banker" ELSE "Tie"

\* lines 123-128
FinalOutcome(pt, bt) ==
    IF pt > bt THEN "Player" ELSE IF bt > pt THEN "Banker" ELSE "Tie"

PlayerActionSix(s) ==
    IF HandTotal(s.pc) <= 6 THEN DealDraw(s, "P") ELSE {s}

\* lines 110-113
PlayerAction(s) ==
    IF HandTotal(s.pc) <= 5 THEN DealDraw(s, "P") ELSE {s}

\* lines 116-128
BankerAction(s) ==
    IF s.status # "ok" THEN {s}
    ELSE LET player_third_val ==
                 IF Len(s.pc) = 3 THEN CARD_VALUES[s.pc[3]] ELSE None
             after == IF BankerDrawRule(s.bc, player_third_val)
                      THEN DealDraw(s, "B") ELSE {s}
         IN  { IF t.status # "ok" THEN t
               ELSE [t EXCEPT !.result =
                                  FinalOutcome(HandTotal(t.pc), HandTotal(t.bc))]
               : t \in after }

\* lines 97-128, from the state after the initial deal
AfterInitialDeal(s) ==
    IF s.status # "ok" THEN {s}
    ELSE LET pt == HandTotal(s.pc)
             bt == HandTotal(s.bc)
         IN  IF IsNatural(pt, bt)
             THEN {[s EXCEPT !.result = NaturalOutcome(pt, bt)]}
             ELSE UNION { BankerAction(t) : t \in PlayerAction(s) }

\* every way deal_hand_from_shoe can end on a shoe with these counts
DealHandFromShoe(counts) ==
    UNION { AfterInitialDeal(s) : s \in InitialDeal(counts) }

(***************************************************************************)
(* Calls on the core by its caller.  ret.op = "none": the caller is       *)
(* between two calls.                                                     *)
(***************************************************************************)
NoCall ==
    [op |-> "none", status |-> "ok", rank |-> 0, r |-> 0, result |-> "none",
     pc |-> <<>>, bc |-> <<>>, order |-> <<>>, flag |-> FALSE,
     args |-> <<>>, value |-> <<>>]

\* the shoes the exploration starts from: built as the GUI builds them,
\* Shoe(counts = {r: max(0, init - removed)}), every rank present
InitShoes ==
    { c \in { [k \in Ranks |-> IF k \in ModelRanks THEN f[k] ELSE 0]
              : f \in [ModelRanks -> 0..MaxCount] } :
        Remaining(c) <= MaxCards }

SimIdle ==
    /\ sim_pc = "idle"
    /\ n_sims = 0
    /\ trial = 0
    /\ win_counts = [o \in {"Player", "Banker", "Tie"} |-> 0]
    /\ base_counts = [k \in Ranks |-> 0]
    /\ temp_shoe = [k \in Ranks |-> 0]
    /\ sim_failed = FALSE
    /\ prob = [o \in {"Player", "Banker", "Tie"} |-> [num |-> 0, den |-> 1]]

NoHist == [op |-> "none", rank |-> 0, before |-> [k \in Ranks |-> 0]]

AuxIdle ==
    /\ hist = NoHist
    /\ rng = 0
    /\ runs = <<>>

Init ==
    /\ shoe \in InitShoes
    /\ pre = shoe
    /\ ret = NoCall
    /\ SimIdle
    /\ AuxIdle

CallRemove ==
    /\ ret.op = "none"
    /\ \E rank \in Ranks :
         LET res == Remove(shoe, rank)
         IN  /\ shoe' = res.counts
             /\ ret' = [NoCall EXCEPT !.op = "remove", !.status = res.status,
                                      !.rank = rank]
    /\ pre' = shoe
    /\ UNCHANGED <<simvars, aux>>

CallAddBack ==
    /\ ret.op = "none"
    /\ \E rank \in ModelRanks :
         /\ shoe[rank] < MaxCount
         /\ Remaining(shoe) < MaxCards
         /\ shoe' = AddBack(shoe, rank)
         /\ ret' = [NoCall EXCEPT !.op = "add_back", !.rank = rank]
    /\ pre' = shoe
    /\ UNCHANGED <<simvars, aux>>

CallDrawRandom ==
    /\ ret.op = "none"
    /\ \E r \in RandInts(shoe) :
         LET res == DrawRandom(shoe, r)
         IN  /\ shoe' = res.counts
             /\ ret' = [NoCall EXCEPT !.op = "draw_random",
                                      !.status = res.status,
                                      !.rank = res.rank, !.r = r]
    /\ pre' = shoe
    /\ UNCHANGED <<simvars, aux>>

CallDealHand ==
    /\ ret.op = "none"
    /\ \E res \in DealHandFromShoe(shoe) :
         /\ shoe' = res.counts
         /\ ret' = [NoCall EXCEPT !.op = "deal_hand_from_shoe",
                                  !.status = res.status, !.result = res.result,
                                  !.pc = res.pc, !.bc = res.bc,
                                  !.order = res.order]
    /\ pre' = shoe
    /\ UNCHANGED <<simvars, aux>>

\* the caller has looked at the result and goes on to its next call
Return ==
    /\ ret.op # "none"
    /\ ret' = NoCall
    /\ pre' = shoe
    /\ UNCHANGED <<aux, shoe, simvars>>

Next ==
    \/ CallRemove
    \/ CallAddBack
    \/ CallDrawRandom
    \/ CallDealHand
    \/ Return

Spec == Init /\ [][Next]_vars

(***************************************************************************)
(* Monte Carlo estimator: simulate_next_hand_probabilities, one step per  *)
(* loop iteration.  A float v / total is kept as the exact fraction       *)
(* num / den; den = 0 is a division by zero.                              *)
(***************************************************************************)
Outcomes == {"Player", "Banker", "Tie"}

Frac(n, d) == [num |-> n, den |-> d]

\* Shoe(decks, counts): __post_init__ replaces an empty dict by full decks
NewShoe(decks, counts) ==
    IF DOMAIN counts = {} THEN FullShoe(decks) ELSE counts

DistributionNoZeroCheck(wins) ==
    LET total == wins["Player"] + wins["Banker"] + wins["Tie"]
    IN  [o \in Outcomes |-> Frac(wins[o], total)]

\* lines 145-148
Distribution(wins) ==
    LET total == wins["Player"] + wins["Banker"] + wins["Tie"]
    IN  IF total = 0
        THEN [o \in Outcomes |-> Frac(0, 1)]
        ELSE [o \in Outcomes |-> Frac(wins[o], total)]

\* lines 132-135
SimStart ==
    /\ sim_pc = "idle"
    /\ \E n \in 0..MaxSims : n_sims' = n
    /\ win_counts' = [o \in Outcomes |-> 0]
    /\ base_counts' = shoe
    /\ trial' = 0
    /\ sim_failed' = FALSE
    /\ sim_pc' = "loop"
    /\ pre' = shoe
    /\ UNCHANGED <<aux, shoe, ret, temp_shoe, prob>>

SimNewTrialOneMore ==
    /\ sim_pc = "loop"
    /\ trial <= n_sims
    /\ temp_shoe' = NewShoe(DefaultDecks, base_counts)
    /\ trial' = trial + 1
    /\ sim_pc' = "try"
    /\ UNCHANGED <<aux, shoe, pre, ret, n_sims, win_counts, base_counts,
                   sim_failed, prob>>

\* line 136 and line 138: the loop goes on and builds the trial's temp_shoe
SimNewTrial ==
    /\ sim_pc = "loop"
    /\ trial < n_sims
    /\ temp_shoe' = NewShoe(DefaultDecks, base_counts)
    /\ trial' = trial + 1
    /\ sim_pc' = "try"
    /\ UNCHANGED <<aux, shoe, pre, ret, n_sims, win_counts, base_counts,
                   sim_failed, prob>>

\* what the try block can see of its hand: only the result (or the
\* exception) and the temp_shoe leave deal_hand_from_shoe
TrialDealsOf(counts) ==
    { [status |-> res.status, result |-> res.result, counts |-> res.counts]
      : res \in DealHandFromShoe(counts) }

\* TrialDealsOf tabulated over the shoes a call can start from
DealTable == [counts \in InitShoes |-> TrialDealsOf(counts)]

TrialDeals ==
    IF temp_shoe \in InitShoes THEN DealTable[temp_shoe]
    ELSE TrialDealsOf(temp_shoe)

SimTrialOkShared ==
    /\ sim_pc = "try"
    /\ \E res \in TrialDeals :
         /\ res.status = "ok"
         /\ temp_shoe' = res.counts
         /\ base_counts' = res.counts
         /\ win_counts' = [win_counts EXCEPT ![res.result] = @ + 1]
    /\ sim_pc' = "loop"
    /\ UNCHANGED <<aux, shoe, pre, ret, n_sims, trial, sim_failed, prob>>

\* lines 139-144, a trial whose hand completes
SimTrialOk ==
    /\ sim_pc = "try"
    /\ \E res \in TrialDeals :
         /\ res.status = "ok"
         /\ temp_shoe' = res.counts
         /\ win_counts' = [win_counts EXCEPT ![res.result] = @ + 1]
    /\ sim_pc' = "loop"
    /\ UNCHANGED <<aux, shoe, pre, ret, n_sims, trial, base_counts, sim_failed,
                   prob>>

SimTrialFailContinue ==
    /\ sim_pc = "try"
    /\ \E res \in TrialDeals :
         /\ res.status # "ok"
         /\ temp_shoe' = res.counts
    /\ sim_pc' = "loop"
    /\ sim_failed' = TRUE
    /\ UNCHANGED <<aux, shoe, pre, ret, n_sims, trial, base_counts, win_counts,
                   prob>>

\* lines 139-148, a trial whose hand raises: ValueError breaks the loop and
\* the function returns; any other exception leaves the function
SimTrialFail ==
    /\ sim_pc = "try"
    /\ \E res \in TrialDeals :
         /\ res.status # "ok"
         /\ temp_shoe' = res.counts
         /\ IF res.status = "ValueError"
            THEN /\ sim_pc' = "done"
                 /\ prob' = Distribution(win_counts)
            ELSE /\ sim_pc' = "raised"
                 /\ prob' = prob
    /\ sim_failed' = TRUE
    /\ UNCHANGED <<aux, shoe, pre, ret, n_sims, trial, base_counts, win_counts>>

\* lines 136, 145-148: range(n_sims) is used up
SimLoopEnd ==
    /\ sim_pc = "loop"
    /\ trial >= n_sims
    /\ sim_pc' = "done"
    /\ prob' = Distribution(win_counts)
    /\ UNCHANGED <<aux, shoe, pre, ret, n_sims, trial, win_counts, base_counts,
                   temp_shoe, sim_failed>>

\* the caller has taken the distribution; the locals of the call are gone
SimReturn ==
    /\ sim_pc = "done"
    /\ sim_pc' = "idle"
    /\ n_sims' = 0
    /\ trial' = 0
    /\ win_counts' = [o \in Outcomes |-> 0]
    /\ base_counts' = [k \in Ranks |-> 0]
    /\ temp_shoe' = [k \in Ranks |-> 0]
    /\ sim_failed' = FALSE
    /\ prob' = [o \in Outcomes |-> Frac(0, 1)]
    /\ UNCHANGED <<aux, shoe, pre, ret>>

NextSim ==
    \/ SimStart
    \/ SimNewTrial
    \/ SimTrialOk
    \/ SimTrialFail
    \/ SimLoopEnd
    \/ SimReturn

SpecSim == Init /\ [][NextSim]_vars

\* simulate is straight-line sequential code: a statement that can run does
\* run, so each step of the call is taken once it is enabled
SpecSimFair ==
    /\ Init
    /\ [][NextSim]_vars
    /\ WF_vars(SimNewTrial)
    /\ WF_vars(SimTrialOk \/ SimTrialFail)
    /\ WF_vars(SimLoopEnd)

(***************************************************************************)
(* banker_draw_rule applied to every two-card banker hand and every       *)
(* player_third value.                                                    *)
(***************************************************************************)
ThirdValues == (0..9) \cup {None}

InitRule ==
    /\ shoe = FullShoe(DefaultDecks)
    /\ pre = shoe
    /\ ret = NoCall
    /\ SimIdle
    /\ AuxIdle

CallBankerDrawRule ==
    /\ ret.op = "none"
    /\ \E b1 \in Ranks, b2 \in Ranks, v \in ThirdValues :
         ret' = [NoCall EXCEPT !.op = "banker_draw_rule",
                               !.bc = <<b1, b2>>, !.r = v,
                               !.flag = BankerDrawRule(<<b1, b2>>, v)]
    /\ UNCHANGED <<aux, shoe, pre, simvars>>

NextRule ==
    \/ CallBankerDrawRule
    \/ Return

SpecRule == InitRule /\ [][NextRule]_vars

(***************************************************************************)
(* Properties                                                             *)
(***************************************************************************)
DrawOk == ret.op = "draw_random" /\ ret.status = "ok"
DealOk == ret.op = "deal_hand_from_shoe" /\ ret.status = "ok"
DealFailed == ret.op = "deal_hand_from_shoe" /\ ret.status = "ValueError"

\* C1: after any sequence of remove, add_back and draw_random calls,
\* successful or failing, every rank's count is still >= 0.
C1_CountsNeverNegative == \A k \in Ranks : shoe[k] >= 0

\* a draw took the last card of its rank
C1_Witness == DrawOk /\ pre[ret.rank] = 1 /\ shoe[ret.rank] = 0

\* C2: a deal_hand_from_shoe that fails with the empty-shoe error leaves the
\* shoe's per-rank counts equal to the counts before the call.
C2_FailedDealRestoresShoe == DealFailed => shoe = pre

\* C3: remove(rank) with counts[rank] <= 0 fails and changes no count;
\* draw_random() with remaining() = 0 fails and changes no count.
C3_RejectedChangesNothing ==
    /\ (ret.op = "remove" /\ pre[ret.rank] <= 0) => ret.status = "ValueError"
    /\ (ret.op = "remove" /\ ret.status = "ValueError") => shoe = pre
    /\ (ret.op = "draw_random" /\ Remaining(pre) = 0)
           => ret.status = "ValueError"
    /\ (ret.op = "draw_random" /\ ret.status = "ValueError") => shoe = pre

\* a remove of an exhausted rank was rejected on a shoe that still has cards
C3_Witness ==
    /\ ret.op = "remove"
    /\ ret.status = "ValueError"
    /\ pre[ret.rank] = 0
    /\ Remaining(pre) > 0

\* the first rank in iteration order whose cumulative count reaches r
FirstReaching(counts, r) ==
    CHOOSE k \in Ranks :
        /\ SumCounts(counts, k) >= r
        /\ \A j \in 1..(k - 1) : SumCounts(counts, j) < r

\* C4: for every r in [1, remaining()] draw_random selects the first rank
\* whose cumulative count reaches or exceeds r; so exactly counts[k] of the
\* integers select rank k and a rank at 0 is never selected.
C4_DrawSelectsByCumulativeCount ==
    /\ DrawOk => /\ ret.rank = FirstReaching(pre, ret.r)
                 /\ pre[ret.rank] > 0
    /\ \A k \in Ranks :
         Cardinality({ r \in 1..Remaining(shoe) :
                         DrawRandom(shoe, r).rank = k }) = shoe[k]

\* a draw with r on the boundary of a rank, past an exhausted rank
C4_Witness ==
    /\ DrawOk
    /\ pre[3] > 0 /\ pre[4] = 0 /\ pre[9] > 0 /\ pre[10] > 0
    /\ ret.r = pre[3] + pre[9]
    /\ ret.rank = 9

\* C5: a successful draw_random decrements the returned rank's count by 1
\* and changes no other count, so remaining() goes down by exactly 1 and is
\* never negative.
C5_DrawTakesExactlyOne ==
    /\ DrawOk => /\ shoe = [pre EXCEPT ![ret.rank] = @ - 1]
                 /\ Remaining(shoe) = Remaining(pre) - 1
    /\ Remaining(shoe) >= 0

\* a draw took the last card of the shoe
C5_Witness == DrawOk /\ Remaining(pre) = 1 /\ Remaining(shoe) = 0

FirstTwo(cards) == SubSeq(cards, 1, 2)

HasNatural ==
    \/ HandTotal(FirstTwo(ret.pc)) \in {8, 9}
    \/ HandTotal(FirstTwo(ret.bc)) \in {8, 9}

\* C6: in a completed hand, a first-two-card total of 8 or 9 on either side
\* means no further card: both hands have 2 cards, the shoe lost 4 cards.
C6_NaturalEndsHand ==
    (DealOk /\ HasNatural)
        => /\ Len(ret.pc) = 2
           /\ Len(ret.bc) = 2
           /\ Remaining(shoe) = Remaining(pre) - 4

\* the banker has a natural while the player's total would call for a card
C6_Witness ==
    /\ DealOk
    /\ HandTotal(FirstTwo(ret.bc)) \in {8, 9}
    /\ HandTotal(FirstTwo(ret.pc)) <= 5
    /\ Len(ret.pc) = 2
    /\ Remaining(shoe) > 0

\* the tableau as the specification words it
TableauDraws(b, v) ==
    IF v = None THEN b <= 5
    ELSE \/ b <= 2
         \/ b = 3 /\ v # 8
         \/ b = 4 /\ v \in 2..7
         \/ b = 5 /\ v \in 4..7
         \/ b = 6 /\ v \in {6, 7}

\* C7: for every banker two-card total b in 0..7 and every player third-card
\* value v in 0..9 or none, the banker draws exactly when the tableau says
\* so; b = 7 always stands and b = 3 with v = 8 stands.
C7_BankerTableau ==
    (ret.op = "banker_draw_rule" /\ HandTotal(ret.bc) \in 0..7)
        => /\ ret.flag <=> TableauDraws(HandTotal(ret.bc), ret.r)
           /\ HandTotal(ret.bc) = 7 => ~ret.flag
           /\ (HandTotal(ret.bc) = 3 /\ ret.r = 8) => ~ret.flag

\* the rule was applied to a banker total of 3 and a player third card of 8
C7_Witness ==
    /\ ret.op = "banker_draw_rule"
    /\ HandTotal(ret.bc) = 3
    /\ ret.r = 8
    /\ ~ret.flag

\* C8: in every completed hand the outcome is Player exactly when the
\* returned player cards total more than the returned banker cards, Banker
\* exactly when less, Tie exactly when the totals are equal.
C8_OutcomeMatchesTotals ==
    DealOk
        => /\ ret.result = "Player" <=> HandTotal(ret.pc) > HandTotal(ret.bc)
           /\ ret.result = "Banker" <=> HandTotal(ret.pc) < HandTotal(ret.bc)
           /\ ret.result = "Tie" <=> HandTotal(ret.pc) = HandTotal(ret.bc)

\* a hand ended by two equal naturals
C8_Witness ==
    /\ DealOk
    /\ HasNatural
    /\ HandTotal(ret.pc) = HandTotal(ret.bc)
    /\ ret.result = "Tie"

AllZero(dist) == \A o \in Outcomes : dist[o].num = 0 /\ dist[o].den # 0

\* the first trial raised the empty-shoe error
FirstTrialFailed == sim_failed /\ trial = 1

\* C9: simulate with n_sims = 0, or with a shoe exhausted on the first
\* trial, returns the all-zero distribution; it raises nothing and divides
\* by nothing.
C9_ZeroTrialsGiveZeroDistribution ==
    (sim_pc \in {"done", "raised"} /\ (n_sims = 0 \/ FirstTrialFailed))
        => /\ sim_pc = "done"
           /\ AllZero(prob)

\* simulate returned after its first trial ran out of cards on a shoe that
\* was not empty
C9_Witness ==
    /\ sim_pc = "done"
    /\ FirstTrialFailed
    /\ n_sims > 1
    /\ Remaining(base_counts) > 0
    /\ AllZero(prob)

Tallies == win_counts["Player"] + win_counts["Banker"] + win_counts["Tie"]

\* the trials that ran to their end
Completed == IF sim_failed THEN trial - 1 ELSE trial

\* C10: once a trial fails no later trial is executed and the failed trial
\* adds to no tally; the returned values are the tallies divided by the
\* number of completed trials, so the tallies sum to that number and the
\* values sum to 1, or all are 0 when no trial completed.
C10_EarlyStopKeepsCompletedTrials ==
    /\ [](sim_pc = "done"
            => /\ Tallies = Completed
               /\ Completed > 0 =>
                    /\ \A o \in Outcomes :
                         prob[o] = Frac(win_counts[o], Completed)
                    /\ prob["Player"].num + prob["Banker"].num
                         + prob["Tie"].num = Completed
               /\ Completed = 0 => AllZero(prob))
    /\ [][sim_failed =>
            \/ sim_pc' = "idle"
            \/ /\ sim_pc' = "done"
               /\ trial' = trial
               /\ win_counts' = win_counts
               /\ prob' = prob]_vars

\* a run stopped by a failing trial after at least one completed trial
C10_Witness ==
    /\ sim_pc = "done"
    /\ sim_failed
    /\ trial >= 2
    /\ Tallies = trial - 1
    /\ trial < n_sims

\* C11: every trial starts from a shoe whose counts equal the snapshot taken
\* at the call, whatever earlier trials drew, and the caller's shoe has the
\* same counts during and after the call as before it.
C11_TrialsStartFromSnapshot ==
    /\ sim_pc = "try" => temp_shoe = pre
    /\ sim_pc # "idle" => shoe = pre /\ base_counts = pre

\* a second trial starts after a first one has drawn its cards
C11_Witness ==
    /\ sim_pc = "try"
    /\ trial >= 2
    /\ Tallies >= 1
    /\ temp_shoe = pre
    /\ Remaining(pre) >= 4

(***************************************************************************)
(* Pairs of manual adjustments: remove and add_back called one after the  *)
(* other, the earlier call kept in hist.                                  *)
(***************************************************************************)
\* the caller goes on to its next call; a successful adjustment is remembered
ReturnKeep ==
    /\ ret.op # "none"
    /\ hist' = IF ret.op \in {"remove", "add_back"} /\ ret.status = "ok"
               THEN [op |-> ret.op, rank |-> ret.rank, before |-> pre]
               ELSE NoHist
    /\ ret' = NoCall
    /\ pre' = shoe
    /\ UNCHANGED <<shoe, simvars, rng, runs>>

NextPair ==
    \/ CallRemove
    \/ CallAddBack
    \/ ReturnKeep

SpecPair == Init /\ [][NextPair]_vars

\* C13: remove and add_back each change only counts[rank], by exactly 1;
\* remove then add_back of the same rank restores every count, and add_back
\* then remove of the same rank succeeds and restores every count.
C13_RemoveAddBackInverse ==
    /\ (ret.op = "remove" /\ ret.status = "ok")
           => shoe = [pre EXCEPT ![ret.rank] = @ - 1]
    /\ ret.op = "add_back" => shoe = [pre EXCEPT ![ret.rank] = @ + 1]
    /\ (ret.op = "add_back" /\ hist.op = "remove" /\ hist.rank = ret.rank)
           => shoe = hist.before
    /\ (ret.op = "remove" /\ hist.op = "add_back" /\ hist.rank = ret.rank)
           => ret.status = "ok" /\ shoe = hist.before

\* the last card of a rank was removed and then added back
C13_Witness ==
    /\ ret.op = "add_back"
    /\ hist.op = "remove"
    /\ hist.rank = ret.rank
    /\ hist.before[ret.rank] = 1
    /\ pre[ret.rank] = 0
    /\ shoe = hist.before

(***************************************************************************)
(* Shoe construction: Shoe(decks, counts) with and without an explicit    *)
(* counts dict.  The empty dict is the function with the empty domain.    *)
(***************************************************************************)
EmptyCounts == <<>>

CallShoe ==
    /\ ret.op = "none"
    /\ \E decks \in 1..MaxDecks, counts \in InitShoes \cup {EmptyCounts} :
         /\ shoe' = NewShoe(decks, counts)
         /\ ret' = [NoCall EXCEPT !.op = "Shoe", !.r = decks,
                                  !.flag = (counts = EmptyCounts)]
    /\ pre' = shoe'
    /\ UNCHANGED <<simvars, aux>>

NextBuild ==
    \/ CallShoe
    \/ Return

SpecBuild == InitRule /\ [][NextBuild]_vars

\* C14: for every positive deck count d, a Shoe built without a counts
\* override has counts[r] = 4*d for each of the 13 ranks and remaining() =
\* 52*d.
C14_FreshShoeIsFull ==
    (ret.op = "Shoe" /\ ret.flag)
        => /\ DOMAIN shoe = 1..13
           /\ \A k \in 1..13 : shoe[k] = 4 * ret.r
           /\ Remaining(shoe) = 52 * ret.r

\* a six-deck shoe was built
C14_Witness ==
    /\ ret.op = "Shoe"
    /\ ret.flag
    /\ ret.r = 6
    /\ Remaining(shoe) = 312

(***************************************************************************)
(* The pure functions hand_total, expected_value and kelly_fraction,      *)
(* applied to inputs from bounded sets.  A float is kept as an exact      *)
(* fraction num / den; a payout or an edge x is given in hundredths, as   *)
(* the integer 100 * x.                                                   *)
(***************************************************************************)
Scale == 100

RatMul(a, b) == Frac(a.num * b.num, a.den * b.den)
RatSub(a, b) == Frac(a.num * b.den - b.num * a.den, a.den * b.den)
\* a < b, for positive denominators
RatLess(a, b) == a.num * b.den < b.num * a.den
RatEq(a, b) == a.num * b.den = b.num * a.den
\* Python's max(a, b): b only when it is greater
RatMax(a, b) == IF RatLess(a, b) THEN b ELSE a

\* prob.get(key, 0.0)
Get(dist, key) == IF key \in DOMAIN dist THEN dist[key] ELSE Frac(0, 1)

ExpectedValueTieLoses(dist, payout_player, payout_banker, payout_tie) ==
    LET pP == Get(dist, "Player")
        pB == Get(dist, "Banker")
        pT == Get(dist, "Tie")
        one == Frac(1, 1)
    IN  [Player |-> RatSub(RatSub(RatMul(pP, Frac(payout_player, Scale)),
                                  RatMul(pB, one)), pT),
         Banker |-> RatSub(RatSub(RatMul(pB, Frac(payout_banker, Scale)),
                                  RatMul(pP, one)), pT),
         Tie |-> RatSub(RatMul(pT, Frac(payout_tie, Scale)),
                        RatMul(RatSub(one, pT), one))]

ExpectedValue(dist, payout_player, payout_banker, payout_tie) ==
    LET pP == Get(dist, "Player")
        pB == Get(dist, "Banker")
        pT == Get(dist, "Tie")
        one == Frac(1, 1)
    IN  [Player |-> RatSub(RatMul(pP, Frac(payout_player, Scale)),
                           RatMul(pB, one)),
         Banker |-> RatSub(RatMul(pB, Frac(payout_banker, Scale)),
                           RatMul(pP, one)),
         Tie |-> RatSub(RatMul(pT, Frac(payout_tie, Scale)),
                        RatMul(RatSub(one, pT), one))]

KellyFractionNoClamp(edge, payout) ==
    IF payout <= 0 THEN Frac(0, 1) ELSE Frac(edge, payout)

KellyFraction(edge, payout) ==
    IF payout <= 0 THEN Frac(0, 1)
    ELSE RatMax(Frac(0, 1), Frac(edge, payout))

\* the inputs
Hands == UNION { [1..n -> Ranks] : n \in 0..MaxHand }
PayoutValues == {0 - 100, 0, 95, 100, 800}
EdgeValues == {0 - 100, 0 - 1, 0, 5, 100}
Distributions ==
    { Distribution(w) :
        w \in { v \in [Outcomes -> 0..MaxSims] :
                  v["Player"] + v["Banker"] + v["Tie"] <= MaxSims } }

CallHandTotal ==
    /\ ret.op = "none"
    /\ \E cards \in Hands :
         ret' = [NoCall EXCEPT !.op = "hand_total", !.pc = cards,
                               !.r = HandTotal(cards)]
    /\ UNCHANGED <<shoe, pre, simvars, aux>>

CallExpectedValue ==
    /\ ret.op = "none"
    /\ \E dist \in Distributions, pp \in PayoutValues, pb \in PayoutValues,
          pt \in PayoutValues :
         ret' = [NoCall EXCEPT !.op = "expected_value",
                               !.args = [prob |-> dist, payout_player |-> pp,
                                         payout_banker |-> pb,
                                         payout_tie |-> pt],
                               !.value = ExpectedValue(dist, pp, pb, pt)]
    /\ UNCHANGED <<shoe, pre, simvars, aux>>

CallKellyFraction ==
    /\ ret.op = "none"
    /\ \E edge \in EdgeValues, payout \in PayoutValues :
         ret' = [NoCall EXCEPT !.op = "kelly_fraction",
                               !.args = [edge |-> edge, payout |-> payout],
                               !.value = KellyFraction(edge, payout)]
    /\ UNCHANGED <<shoe, pre, simvars, aux>>

NextPure ==
    \/ CallHandTotal
    \/ CallExpectedValue
    \/ CallKellyFraction
    \/ Return

SpecPure == InitRule /\ [][NextPure]_vars

\* the reorderings of n cards
Reorderings ==
    [n \in 0..MaxHand |->
        { f \in [1..n -> 1..n] : \A i, j \in 1..n : f[i] = f[j] => i = j }]

\* the point value of a rank as the specification gives it
PointValue(rank) == IF rank <= 9 THEN rank ELSE 0

RECURSIVE SumPoints(_, _)
SumPoints(cards, n) ==
    IF n = 0 THEN 0 ELSE PointValue(cards[n]) + SumPoints(cards, n - 1)

\* C15: hand_total is in 0..9 for every sequence of ranks, is the same for
\* every reordering of the cards, and counts ranks 1..9 at face value and
\* ranks 10..13 as 0.
C15_HandTotalRangeAndOrder ==
    ret.op = "hand_total"
        => /\ ret.r \in 0..9
           /\ \A f \in Reorderings[Len(ret.pc)] :
                HandTotal([i \in 1..Len(ret.pc) |-> ret.pc[f[i]]]) = ret.r
           /\ ret.r = SumPoints(ret.pc, Len(ret.pc)) % 10

\* three cards whose values add up past 10, a face card among them
C15_Witness ==
    /\ ret.op = "hand_total"
    /\ ret.pc = <<9, 13, 7>>
    /\ ret.r = 6

\* C16: expected_value returns EV(Player) = P(Player)*payoutPlayer -
\* P(Banker), EV(Banker) = P(Banker)*payoutBanker - P(Player), EV(Tie) =
\* P(Tie)*payoutTie - (1 - P(Tie)); P(Tie) is in neither of the first two;
\* for {Player: 1, Banker: 0, Tie: 0} and payouts (1.0, 0.95, 8.0) the result
\* is (1.0, -1.0, -1.0).
C16_ExpectedValueFormulas ==
    ret.op = "expected_value"
        => LET a == ret.args
               d == a.prob["Player"].den
               nP == a.prob["Player"].num
               nB == a.prob["Banker"].num
               nT == a.prob["Tie"].num
               ev == ret.value
           IN  /\ a.prob["Banker"].den = d /\ a.prob["Tie"].den = d
               /\ RatEq(ev["Player"],
                        Frac(nP * a.payout_player - nB * Scale, d * Scale))
               /\ RatEq(ev["Banker"],
                        Frac(nB * a.payout_banker - nP * Scale, d * Scale))
               /\ RatEq(ev["Tie"],
                        Frac(nT * a.payout_tie - (d - nT) * Scale, d * Scale))
               /\ \A o \in Outcomes : ev[o].den # 0
               /\ (nP = d /\ nB = 0 /\ nT = 0 /\ a.payout_player = 100
                     /\ a.payout_banker = 95 /\ a.payout_tie = 800)
                    => /\ RatEq(ev["Player"], Frac(1, 1))
                       /\ RatEq(ev["Banker"], Frac(0 - 1, 1))
                       /\ RatEq(ev["Tie"], Frac(0 - 1, 1))

\* the degenerate distribution with the default payouts
C16_Witness ==
    /\ ret.op = "expected_value"
    /\ ret.args.prob["Player"] = Frac(1, 1)
    /\ ret.args.prob["Banker"].num = 0
    /\ ret.args.prob["Tie"].num = 0
    /\ ret.args.payout_player = 100
    /\ ret.args.payout_banker = 95
    /\ ret.args.payout_tie = 800
    /\ RatEq(ret.value["Banker"], Frac(0 - 1, 1))

\* C17: kelly_fraction is never negative; it is 0 whenever payout <= 0 or
\* edge <= 0, and edge / payout whenever payout > 0 and edge > 0.
C17_KellyClamped ==
    ret.op = "kelly_fraction"
        => LET edge == ret.args.edge
               payout == ret.args.payout
               f == ret.value
           IN  /\ f.den > 0 /\ f.num >= 0
               /\ (payout <= 0 \/ edge <= 0) => f.num = 0
               /\ (payout > 0 /\ edge > 0) => RatEq(f, Frac(edge, payout))

\* a negative edge on a positive payout was clamped to 0
C17_Witness ==
    /\ ret.op = "kelly_fraction"
    /\ ret.args.edge = 0 - 1
    /\ ret.args.payout = 100
    /\ ret.value.num = 0

\* C18: a completed hand draws player, player, banker, banker; then, only
\* without a natural, a player third card exactly when the player's
\* two-card total is <= 5, then a banker third card exactly when the tableau
\* triggers on the banker's two-card total and the player's third-card value
\* (or none); nothing else is drawn: 2 or 3 cards a side, 4 to 6 cards a hand.
C18_DrawOrder ==
    DealOk
        => LET pt == HandTotal(FirstTwo(ret.pc))
               bt == HandTotal(FirstTwo(ret.bc))
               player_third == ~HasNatural /\ pt <= 5
               v == IF Len(ret.pc) >= 3 THEN PointValue(ret.pc[3]) ELSE None
               banker_third == ~HasNatural /\ TableauDraws(bt, v)
           IN  /\ Len(ret.pc) = IF player_third THEN 3 ELSE 2
               /\ Len(ret.bc) = IF banker_third THEN 3 ELSE 2
               /\ ret.order = <<"P", "P", "B", "B">>
                                \o (IF player_third THEN <<"P">> ELSE <<>>)
                                \o (IF banker_third THEN <<"B">> ELSE <<>>)
               /\ Len(ret.order) \in 4..6
               /\ Remaining(pre) - Remaining(shoe) = Len(ret.order)

\* a hand of six cards: the banker, on a two-card total of 4, drew after the player
C18_Witness ==
    /\ DealOk
    /\ ret.order = <<"P", "P", "B", "B", "P", "B">>
    /\ HandTotal(FirstTwo(ret.bc)) = 4

\* how many times rank k occurs in cards
RECURSIVE Occurrences(_, _)
Occurrences(k, cards) ==
    IF cards = <<>> THEN 0
    ELSE (IF Head(cards) = k THEN 1 ELSE 0) + Occurrences(k, Tail(cards))

\* C20: after every successful deal, each rank's count has gone down by the
\* number of times the rank appears in the returned player and banker cards
\* together, and remaining() by the number of returned cards.
C20_CardsConserved ==
    DealOk
        => /\ \A k \in Ranks :
                pre[k] - shoe[k] = Occurrences(k, ret.pc \o ret.bc)
           /\ Remaining(pre) - Remaining(shoe) = Len(ret.pc) + Len(ret.bc)

\* a six-card hand holding two cards of one rank
C20_Witness ==
    /\ DealOk
    /\ Len(ret.pc) + Len(ret.bc) = 6
    /\ \E k \in Ranks : Occurrences(k, ret.pc \o ret.bc) = 2 /\ shoe[k] = 0

\* C19: simulate always terminates, after at most n_sims trials; on a
\* snapshot of at least 6 cards no trial fails and exactly n_sims trials
\* complete; on a snapshot of fewer than 4 cards the first trial fails and
\* no trial completes.
C19_SimulateTerminates ==
    /\ [](/\ trial <= n_sims
          /\ (sim_pc # "idle" /\ Remaining(base_counts) >= 6) => ~sim_failed
          /\ (sim_pc = "done" /\ Remaining(base_counts) >= 6)
               => Completed = n_sims /\ Tallies = n_sims
          /\ (sim_pc = "done" /\ Remaining(base_counts) < 4 /\ n_sims >= 1)
               => FirstTrialFailed /\ Completed = 0 /\ Tallies = 0)
    /\ (sim_pc \in {"loop", "try"}) ~> (sim_pc = "done")

\* every trial of a call on a six-card snapshot completed
C19_Witness ==
    /\ sim_pc = "done"
    /\ Remaining(base_counts) = 6
    /\ n_sims >= 2
    /\ Completed = n_sims
    /\ Tallies = n_sims

(***************************************************************************)
(* Seeded runs.  The module-level generator of `random` is the variable   *)
(* rng.  The Mersenne Twister is replaced by a small congruential         *)
(* generator: what is kept of it is that random.seed(seed) sets the       *)
(* state from the seed alone, and that each randint is computed from the  *)
(* state and advances it.                                                 *)
(***************************************************************************)
RngModulus == 7
DefaultSeed == 42
Seeds == {DefaultSeed, 1}

\* random.seed(seed)
SeedState(seed) == seed % RngModulus

\* the generator's state after one more randint
RngNext(x) == (3 * x + 1) % RngModulus

\* random.randint(1, total) as read off the advanced state x
RandInt(x, total) == 1 + (x % total)

\* a deal in progress together with the generator: one shoe.draw_random()
DetDraw(t, who) ==
    IF t.deal.status # "ok" THEN t
    ELSE IF Remaining(t.deal.counts) <= 0
    THEN [deal |-> DealRaise(t.deal, "ValueError"), rng |-> t.rng]
    ELSE LET x == RngNext(t.rng)
             r == RandInt(x, Remaining(t.deal.counts))
         IN  [deal |-> DealTake(t.deal, who, DrawRandom(t.deal.counts, r)),
              rng |-> x]

\* lines 110-113
DetPlayerAction(t) ==
    IF HandTotal(t.deal.pc) <= 5 THEN DetDraw(t, "P") ELSE t

\* lines 116-128
DetBankerAction(t) ==
    IF t.deal.status # "ok" THEN t
    ELSE LET player_third_val ==
                 IF Len(t.deal.pc) = 3 THEN CARD_VALUES[t.deal.pc[3]] ELSE None
             after == IF BankerDrawRule(t.deal.bc, player_third_val)
                      THEN DetDraw(t, "B") ELSE t
         IN  IF after.deal.status # "ok" THEN after
             ELSE [after EXCEPT !.deal.result =
                       FinalOutcome(HandTotal(after.deal.pc),
                                    HandTotal(after.deal.bc))]

\* deal_hand_from_shoe on a shoe with these counts, the generator in state x
DetDealHand(counts, x) ==
    LET t0 == [deal |-> DealStart(counts), rng |-> x]
        t == DetDraw(DetDraw(DetDraw(DetDraw(t0, "P"), "P"), "B"), "B")
        pt == HandTotal(t.deal.pc)
        bt == HandTotal(t.deal.bc)
    IN  IF t.deal.status # "ok" THEN t
        ELSE IF IsNatural(pt, bt)
        THEN [t EXCEPT !.deal.result = NaturalOutcome(pt, bt)]
        ELSE DetBankerAction(DetPlayerAction(t))

\* the shoes the seeded runs are made on: every modelled rank present, and
\* enough cards for every hand or too few for some
DetShoes ==
    { c \in InitShoes :
        /\ Remaining(c) \in {MaxCards - 2, MaxCards}
        /\ \A k \in ModelRanks : c[k] >= 1 }

InitDet ==
    /\ shoe \in DetShoes
    /\ pre = shoe
    /\ ret = NoCall
    /\ SimIdle
    /\ AuxIdle

DetSimStartNoSeed ==
    /\ sim_pc = "idle"
    /\ \E n \in {1, MaxSims}, seed \in Seeds :
         /\ n_sims' = n
         /\ rng' = rng
         /\ ret' = [NoCall EXCEPT !.op = "simulate",
                                  !.args = [seed |-> seed, entry |-> rng]]
    /\ win_counts' = [o \in Outcomes |-> 0]
    /\ base_counts' = shoe
    /\ trial' = 0
    /\ sim_failed' = FALSE
    /\ sim_pc' = "loop"
    /\ pre' = shoe
    /\ UNCHANGED <<shoe, temp_shoe, prob, hist, runs>>

\* lines 130-135; ret.args keeps the seed argument and the state the
\* generator was in when the call was made
DetSimStart ==
    /\ sim_pc = "idle"
    /\ \E n \in {1, MaxSims}, seed \in Seeds :
         /\ n_sims' = n
         /\ rng' = SeedState(seed)
         /\ ret' = [NoCall EXCEPT !.op = "simulate",
                                  !.args = [seed |-> seed, entry |-> rng]]
    /\ win_counts' = [o \in Outcomes |-> 0]
    /\ base_counts' = shoe
    /\ trial' = 0
    /\ sim_failed' = FALSE
    /\ sim_pc' = "loop"
    /\ pre' = shoe
    /\ UNCHANGED <<shoe, temp_shoe, prob, hist, runs>>

\* lines 139-148 with the generator: the trial's hand; ret.pc collects the
\* cards of the hands that completed, in the order of the trials
DetSimTrial ==
    /\ sim_pc = "try"
    /\ LET t == DetDealHand(temp_shoe, rng)
       IN  /\ rng' = t.rng
           /\ temp_shoe' = t.deal.counts
           /\ ret' = [ret EXCEPT !.pc = @ \o t.deal.pc \o t.deal.bc]
           /\ IF t.deal.status = "ok"
              THEN /\ win_counts' = [win_counts EXCEPT ![t.deal.result] = @ + 1]
                   /\ sim_pc' = "loop"
                   /\ UNCHANGED <<sim_failed, prob>>
              ELSE /\ sim_failed' = TRUE
                   /\ win_counts' = win_counts
                   /\ IF t.deal.status = "ValueError"
                      THEN /\ sim_pc' = "done"
                           /\ prob' = Distribution(win_counts)
                      ELSE /\ sim_pc' = "raised"
                           /\ prob' = prob
    /\ UNCHANGED <<shoe, pre, n_sims, trial, base_counts, hist, runs>>

\* the caller has taken the distribution; runs keeps the last two calls
DetSimReturn ==
    /\ sim_pc = "done"
    /\ runs' = (IF runs = <<>> THEN <<>> ELSE <<runs[Len(runs)]>>)
                 \o <<[seed |-> ret.args.seed, n_sims |-> n_sims,
                       counts |-> base_counts, prob |-> prob,
                       draws |-> ret.pc]>>
    /\ ret' = NoCall
    /\ sim_pc' = "idle"
    /\ n_sims' = 0
    /\ trial' = 0
    /\ win_counts' = [o \in Outcomes |-> 0]
    /\ base_counts' = [k \in Ranks |-> 0]
    /\ temp_shoe' = [k \in Ranks |-> 0]
    /\ sim_failed' = FALSE
    /\ prob' = [o \in Outcomes |-> Frac(0, 1)]
    /\ UNCHANGED <<shoe, pre, hist, rng>>

\* between two calls: a draw_random() on some other, non-empty Shoe; only
\* the generator is touched
DetDrawElsewhere ==
    /\ sim_pc = "idle"
    /\ rng' = RngNext(rng)
    /\ UNCHANGED <<shoe, pre, ret, simvars, hist, runs>>

NextDet ==
    \/ DetSimStart
    \/ SimNewTrial
    \/ DetSimTrial
    \/ SimLoopEnd
    \/ DetSimReturn
    \/ DetDrawElsewhere

SpecDet == InitDet /\ [][NextDet]_vars

\* the call in progress has the inputs of the recorded run
SameInputs(run) ==
    /\ run.seed = ret.args.seed
    /\ run.n_sims = n_sims
    /\ run.counts = base_counts

\* C12: two runs of simulate with the same seed, trial count and snapshot
\* give the same distribution and the same sequence of cards over all
\* trials, whatever state the generator was in before each call.
C12_SameSeedSameDistribution ==
    /\ \A i, j \in DOMAIN runs :
         (/\ runs[i].seed = runs[j].seed
          /\ runs[i].n_sims = runs[j].n_sims
          /\ runs[i].counts = runs[j].counts)
            => runs[i].prob = runs[j].prob /\ runs[i].draws = runs[j].draws
    /\ sim_pc = "done"
         => \A i \in DOMAIN runs :
              SameInputs(runs[i])
                => prob = runs[i].prob /\ ret.pc = runs[i].draws

\* a second run with the inputs of an earlier one, entered with the
\* generator in another state than the seed's, ended with the same result
C12_Witness ==
    /\ sim_pc = "done"
    /\ n_sims >= 2
    /\ Tallies = n_sims
    /\ ret.args.entry # SeedState(ret.args.seed)
    /\ \E i \in DOMAIN runs :
         SameInputs(runs[i]) /\ prob = runs[i].prob /\ ret.pc = runs[i].draws

====
